---- MODULE Spec2Model ----
\* Vehicle pathfinding of map_model (pathfind/driving.rs): the input graph built
\* from the lanes and turns of a Map, its preparation as a contraction hierarchy
\* (fast_paths), queries against it, and rebuilds after edits.
EXTENDS Integers, Sequences, FiniteSets, TLC

\* ------------------------------------------------------------------ bounds
NumLanes == 3
Infinity == 100000

\* ------------------------------------------------------------ the network
LaneTypes == {"Driving", "Biking", "Bus", "Sidewalk"}
Modes == {"Car", "Bike", "Bus"}
Threads == {"t1", "t2"}
Callers == {"t1"}

Min(S) == CHOOSE x \in S : \A y \in S : x <= y
Max(S) == CHOOSE x \in S : \A y \in S : x >= y

\* x / y rounded to the nearest integer, halves away from zero (f64::round),
\* for x >= 0 and y > 0.
RoundDiv(x, y) == (2 * x + y) \div (2 * y)

\* ------------------------------------------------------------ InputGraph
\* fast_paths::InputGraph: the node count is one more than the largest node
\* that any kept edge touches ("if the last lane doesn't have any edges, then
\* this won't work").
EmptyInputGraph == [num_nodes |-> 0, edges |-> {}]

\* add_edge skips (with a warning) a loop edge and an edge of weight 0.
AddEdge(g, from, to, weight) ==
    IF from = to \/ weight < 1
    THEN g
    ELSE [num_nodes |-> Max({g.num_nodes, from + 1, to + 1}),
          edges |-> g.edges \cup {<<from, to, weight>>}]

\* freeze(): sort, and of the edges between the same two nodes keep the lightest.
Freeze(g) ==
    [g EXCEPT !.edges =
        {e \in g.edges : \A f \in g.edges :
            (f[1] = e[1] /\ f[2] = e[2]) => e[3] <= f[3]}]

\* ------------------------------------------------------------------- Map
\* A Map is [n, lt, len, speed, tlen, turns, parent]: n lanes LaneID(0) ..
\* LaneID(n-1), each with a lane type, a length (m), the speed limit of its
\* road (m/s) and its road (parent); turns is the set of <<src, dst>> lane
\* pairs joined by a turn, every turn tlen metres long.
LanesOf(m) == 0 .. (m.n - 1)

\* PathConstraints::can_use
CanUse(constraints, l, m) ==
    CASE constraints = "Car" -> m.lt[l] = "Driving"
      [] constraints = "Bike" -> m.lt[l] \in {"Biking", "Driving", "Bus"}
      [] constraints = "Bus" -> m.lt[l] \in {"Driving", "Bus"}

\* Map::get_turns_for: the turns out of l whose destination the mode can use.
GetTurnsFor(m, l, constraints) ==
    {t \in m.turns : t[1] = l /\ CanUse(constraints, t[2], m)}

\* cost(): the lane-type assertions of the Bike and Bus arms.
CostAborts(lane, constraints, m) ==
    CASE constraints = "Car" -> FALSE
      [] constraints = "Bike" -> m.lt[lane] \notin {"Biking", "Bus", "Driving"}
      [] constraints = "Bus" -> m.lt[lane] \notin {"Bus", "Driving"}

\* A Bike cost without preference among the lane types.
BikePenaltyNone(lane, m) == 10

\* lt_penalty, in tenths.
BikePenalty10(lane, m) ==
    IF m.lt[lane] = "Biking" THEN 10 ELSE IF m.lt[lane] = "Bus" THEN 11 ELSE 15

\* A Bus cost without preference for bus lanes.
BusPenaltyNone(lane, m) == 10

BusPenalty10(lane, m) == IF m.lt[lane] = "Bus" THEN 10 ELSE 11

\* A cost that rounds the lane's time and the turn's time each by itself.
CostRoundedTwice(lane, dst, constraints, m) ==
    LET r1 == RoundDiv(m.len[lane], m.speed[lane])
        r2 == RoundDiv(m.tlen, m.speed[dst])
        dist == m.len[lane] + m.tlen
    IN CASE constraints = "Car" -> r1 + r2
         [] constraints = "Bike" -> RoundDiv(BikePenalty10(lane, m) * dist, 10)
         [] constraints = "Bus" -> RoundDiv(BusPenalty10(lane, m) * (r1 + r2), 10)

\* cost(lane, turn, constraints, map) for the turn <<lane, dst>>.
\* t1 + t2 = len/s1 + tlen/s2 = (len*s2 + tlen*s1) / (s1*s2) seconds.
Cost(lane, dst, constraints, m) ==
    LET s1 == m.speed[lane]
        s2 == m.speed[dst]
        num == m.len[lane] * s2 + m.tlen * s1
        den == s1 * s2
        dist == m.len[lane] + m.tlen
    IN CASE constraints = "Car" -> RoundDiv(num, den)
         [] constraints = "Bike" -> RoundDiv(BikePenalty10(lane, m) * dist, 10)
         [] constraints = "Bus" -> RoundDiv(BusPenalty10(lane, m) * num, 10 * den)

\* ---------------------------------------------------------------- NodeMap
\* NodeMap::get_or_insert over map.all_lanes(), in LaneID order: the node of
\* a lane is its insertion index.
RECURSIVE InsertLanes(_, _, _)
InsertLanes(nodes, l, n) ==
    IF l >= n THEN nodes
    ELSE InsertLanes(IF \E i \in 1 .. Len(nodes) : nodes[i] = l
                     THEN nodes ELSE Append(nodes, l), l + 1, n)

NodeMapNew(m) == InsertLanes(<<>>, 0, m.n)

\* NodeMap::get
NodeGet(nodes, l) == (CHOOSE i \in 1 .. Len(nodes) : nodes[i] = l) - 1

\* NodeMap::translate
Translate(nodes, raw) == [i \in 1 .. Len(raw) |-> nodes[raw[i] + 1]]

\* ------------------------------------------------------- make_input_graph
RECURSIVE AddTurnEdges(_, _, _, _, _)
AddTurnEdges(g, ts, nodes, constraints, m) ==
    IF ts = {} THEN g
    ELSE LET t == CHOOSE x \in ts : TRUE
         IN AddTurnEdges(
                AddEdge(g, NodeGet(nodes, t[1]), NodeGet(nodes, t[2]),
                        Cost(t[1], t[2], constraints, m)),
                ts \ {t}, nodes, constraints, m)

\* The loop body without the constraints.can_use(l, map) test.
AddLaneAnyLane(g, l, nodes, constraints, m) ==
    LET ts == GetTurnsFor(m, l, constraints)
        any == ts # {}
        g1 == AddTurnEdges(g, ts, nodes, constraints, m)
    IN IF ~any /\ l = m.n - 1
       THEN AddEdge(g1, NodeGet(nodes, l), NodeGet(nodes, 0), 1)
       ELSE g1

\* One iteration of the loop over map.all_lanes().
AddLane(g, l, nodes, constraints, m) ==
    LET ts == IF CanUse(constraints, l, m)
              THEN GetTurnsFor(m, l, constraints) ELSE {}
        any == ts # {}
        g1 == AddTurnEdges(g, ts, nodes, constraints, m)
    IN IF ~any /\ l = m.n - 1
       THEN AddEdge(g1, NodeGet(nodes, l), NodeGet(nodes, 0), 1)
       ELSE g1

RECURSIVE AddLanes(_, _, _, _, _)
AddLanes(g, l, nodes, constraints, m) ==
    IF l >= m.n THEN g
    ELSE AddLanes(AddLane(g, l, nodes, constraints, m), l + 1,
                  nodes, constraints, m)

MakeInputGraph(m, nodes, constraints) ==
    Freeze(AddLanes(EmptyInputGraph, 0, nodes, constraints, m))

\* ------------------------------------------------- fast_paths: preparation
\* A FastGraph is [num_nodes, order, w, via]: order is the node ordering
\* (order[i] is the i-th node contracted), w[<<u, t>>] the weight of the edge or
\* shortcut from u to t (0: none) and via[<<u, t>>] the contracted node a
\* shortcut skips (-1: an edge of the input graph).
NodeSet(n) == 0 .. (n - 1)

NodeOrders(n) ==
    {o \in [1 .. n -> NodeSet(n)] : \A i, j \in 1 .. n : o[i] = o[j] => i = j}

EdgeWeight(ig, u, t) ==
    IF \E e \in ig.edges : e[1] = u /\ e[2] = t
    THEN (CHOOSE e \in ig.edges : e[1] = u /\ e[2] = t)[3]
    ELSE 0

\* A witness search that always reports a witness.
WitnessDistZero(w, S, u, t) == 0

\* The lightest path from u to t whose inner nodes are in S (the witness search).
RECURSIVE WitnessDist(_, _, _, _)
WitnessDist(w, S, u, t) ==
    IF u = t THEN 0
    ELSE Min({Infinity} \cup
             {w[<<u, x>>] + WitnessDist(w, S \ {x}, x, t) :
                x \in {y \in S : w[<<u, y>>] > 0}})

\* A contraction that adds no shortcut.
ContractNodeNoShortcut(h, v, R) == h

\* Contract v: a shortcut u -> t for every u -> v -> t among the remaining nodes
\* R that no witness path avoiding v matches.
ContractNode(h, v, R) ==
    LET cut == {p \in R \X R :
                  /\ p[1] # p[2]
                  /\ h.w[<<p[1], v>>] > 0
                  /\ h.w[<<v, p[2]>>] > 0
                  /\ h.w[<<p[1], v>>] + h.w[<<v, p[2]>>]
                        < WitnessDist(h.w, R \ {p[1]}, p[1], p[2])}
    IN [h EXCEPT
          !.w = [p \in DOMAIN h.w |->
                   IF p \in cut THEN h.w[<<p[1], v>>] + h.w[<<v, p[2]>>]
                   ELSE h.w[p]],
          !.via = [p \in DOMAIN h.via |-> IF p \in cut THEN v ELSE h.via[p]]]

RECURSIVE ContractAll(_, _)
ContractAll(h, i) ==
    IF i > Len(h.order) THEN h
    ELSE ContractAll(
            ContractNode(h, h.order[i],
                         {h.order[j] : j \in (i + 1) .. Len(h.order)}),
            i + 1)

\* fast_paths::prepare_with_order: the order must list every node of the input
\* graph exactly once.
OrderFits(ig, order) == order \in NodeOrders(ig.num_nodes)

\* A preparation that ranks the nodes and contracts none.
PrepareUncontracted(ig, order) ==
    LET P == NodeSet(ig.num_nodes) \X NodeSet(ig.num_nodes)
    IN [num_nodes |-> ig.num_nodes,
        order |-> order,
        w |-> [p \in P |-> EdgeWeight(ig, p[1], p[2])],
        via |-> [p \in P |-> -1]]

PrepareWithOrder(ig, order) ==
    LET P == NodeSet(ig.num_nodes) \X NodeSet(ig.num_nodes)
    IN ContractAll([num_nodes |-> ig.num_nodes,
                    order |-> order,
                    w |-> [p \in P |-> EdgeWeight(ig, p[1], p[2])],
                    via |-> [p \in P |-> -1]], 1)

\* An ordering other than the graph's own: its reverse.
ReversedNodeOrdering(h) ==
    [i \in 1 .. Len(h.order) |-> h.order[Len(h.order) + 1 - i]]

\* FastGraph::get_node_ordering
GetNodeOrdering(h) == h.order

\* The Result of fast_paths::prepare_with_order: Ok(graph), or Err.
Ok(h) == [ok |-> TRUE, graph |-> h]
Err == [ok |-> FALSE, graph |-> [num_nodes |-> 0, order |-> <<>>,
                                 w |-> <<>>, via |-> <<>>]]

\* A build that goes on with the graph it has when the preparation fails.
UnwrapOrKeep(res, old) == IF res.ok THEN res ELSE Ok(old)

\* Result::unwrap: Ok(graph) gives the graph, Err is a panic (old: the graph
\* the caller holds, which a panic leaves as it is).
Unwrap(res, old) == res

\* ------------------------------------------------------ fast_paths: query
\* Of a set of [d, p, key] candidates the lightest, ties to the smallest key.
Lightest(C) ==
    LET m == Min({c.d : c \in C})
        L == {c \in C : c.d = m}
    IN CHOOSE c \in L : \A e \in L : c.key <= e.key

Unreached == [d |-> Infinity, p |-> <<>>, key |-> 0]

\* The forward search from s settles the nodes in rank order: T[v] is the
\* lightest path from s up to v over edges that lead to a node of higher rank.
RECURSIVE FwdSearch(_, _, _, _)
FwdSearch(h, s, i, T) ==
    IF i > Len(h.order) THEN T
    ELSE LET v == h.order[i]
             C == {[d |-> T[x].d + h.w[<<x, v>>], p |-> Append(T[x].p, v),
                    key |-> x] :
                     x \in {h.order[j] : j \in 1 .. (i - 1)}}
             R == {c \in C : h.w[<<c.key, v>>] > 0 /\ T[c.key].d < Infinity}
         IN FwdSearch(h, s, i + 1,
                [T EXCEPT ![v] = IF v = s THEN [d |-> 0, p |-> <<s>>, key |-> 0]
                                 ELSE IF R = {} THEN Unreached
                                 ELSE Lightest(R)])

\* The backward search from t: T[v] is the lightest path from v down to t over
\* edges that leave a node of higher rank.
RECURSIVE BwdSearch(_, _, _, _)
BwdSearch(h, t, i, T) ==
    IF i > Len(h.order) THEN T
    ELSE LET v == h.order[i]
             C == {[d |-> h.w[<<v, x>>] + T[x].d, p |-> <<v>> \o T[x].p,
                    key |-> x] :
                     x \in {h.order[j] : j \in 1 .. (i - 1)}}
             R == {c \in C : h.w[<<v, c.key>>] > 0 /\ T[c.key].d < Infinity}
         IN BwdSearch(h, t, i + 1,
                [T EXCEPT ![v] = IF v = t THEN [d |-> 0, p |-> <<t>>, key |-> 0]
                                 ELSE IF R = {} THEN Unreached
                                 ELSE Lightest(R)])

\* A shortcut replaced by the two edges it stands for.
RECURSIVE Unpack(_, _, _)
Unpack(h, u, t) ==
    IF h.via[<<u, t>>] = -1 THEN <<u, t>>
    ELSE Unpack(h, u, h.via[<<u, t>>]) \o Tail(Unpack(h, h.via[<<u, t>>], t))

RECURSIVE UnpackPath(_, _)
UnpackPath(h, p) ==
    IF Len(p) < 2 THEN p
    ELSE Unpack(h, p[1], p[2]) \o Tail(UnpackPath(h, Tail(p)))

\* PathCalculator::calc_path: the searches meet at the node with the lightest
\* sum; nothing is found when they do not meet.
NoPath == [found |-> FALSE, nodes |-> <<>>, weight |-> 0]

CalcPath(h, start, end) ==
    IF start = end THEN [found |-> TRUE, nodes |-> <<start>>, weight |-> 0]
    ELSE LET none == [v \in NodeSet(h.num_nodes) |-> Unreached]
             F == FwdSearch(h, start, 1, none)
             B == BwdSearch(h, end, 1, none)
             C == {[d |-> F[h.order[i]].d + B[h.order[i]].d, p |-> <<>>,
                    key |-> i] :
                     i \in {j \in 1 .. Len(h.order) :
                              /\ F[h.order[j]].d < Infinity
                              /\ B[h.order[j]].d < Infinity}}
         IN IF C = {} THEN NoPath
            ELSE LET c == Lightest(C)
                     v == h.order[c.key]
                 IN [found |-> TRUE,
                     nodes |-> UnpackPath(h, F[v].p \o Tail(B[v].p)),
                     weight |-> c.d]

\* calc_path's assertions on its arguments.
CalcPathAborts(h, calc, start, end) ==
    \/ calc.num_nodes # h.num_nodes
    \/ start >= h.num_nodes
    \/ end >= h.num_nodes

\* -------------------------------------------------------- VehiclePathfinder
\* map is the network of the caller; state, graph, nodes, constraints and
\* path_calc are the pathfinder (path_calc per thread); last is the last call
\* and its outcome.  For calls that run step by step on several threads: pc is
\* each thread's position in pathfind, req its request, scratch the working
\* data of each calculator, created how often each was created; ui is the
\* position of the editing handler and previous_version its undo history.
VARIABLES map, state, graph, nodes, constraints, path_calc, last,
          pc, req, scratch, created, ui, previous_version

pathfinder == <<state, graph, nodes, constraints, path_calc>>
tvars == <<pc, req, scratch, created, ui, previous_version>>
vars == <<map, state, graph, nodes, constraints, path_calc, last,
          pc, req, scratch, created, ui, previous_version>>

NoGraph == [num_nodes |-> 0, order |-> <<>>, w |-> <<>>, via |-> <<>>]
NoCalc == [made |-> FALSE, num_nodes |-> 0]
NoResult == [kind |-> "-", raw |-> <<>>, weight |-> 0, steps |-> <<>>, cost_cm |-> 0,
             audited |-> FALSE, panic |-> "-", reports |-> {}]
NoLast == [op |-> "-", thread |-> "-", start |-> 0, end |-> 0, changed |-> FALSE,
           result |-> NoResult]
NoReq == [start |-> 0, end |-> 0, calc |-> "-", seen |-> NoGraph]
NoScratch == [busy |-> FALSE, start |-> 0, end |-> 0]

\* The networks the checks range over: up to NumLanes lanes of LongLen metres,
\* with at most one irregular lane (one lane that is not a driving lane, or a
\* short last lane), and any set of turns that lead from a lane to a later lane
\* or from the last lane back to the first, none to or from a sidewalk.
LongLen == 100
ShortLen == 1
TurnLen == 5
SpeedLimit == 13

AllDriving(n) == [l \in NodeSet(n) |-> "Driving"]
AllLong(n) == [l \in NodeSet(n) |-> LongLen]

LaneProfiles(n) ==
    {[lt |-> AllDriving(n), len |-> AllLong(n)]} \cup
    {[lt |-> [AllDriving(n) EXCEPT ![x] = t], len |-> AllLong(n)] :
        x \in NodeSet(n), t \in LaneTypes} \cup
    {[lt |-> AllDriving(n), len |-> [AllLong(n) EXCEPT ![n - 1] = ShortLen]]}

TurnUniverse(n, lt) ==
    {p \in NodeSet(n) \X NodeSet(n) :
        /\ p[1] < p[2] \/ (p[1] = n - 1 /\ p[2] = 0 /\ n > 1)
        /\ lt[p[1]] # "Sidewalk"
        /\ lt[p[2]] # "Sidewalk"}

TurnSets(n, lt) == SUBSET TurnUniverse(n, lt)

MakeMap(n, lt, len, ts) ==
    [n |-> n, lt |-> lt, len |-> len,
     speed |-> [l \in NodeSet(n) |-> SpeedLimit], tlen |-> TurnLen, turns |-> ts,
     parent |-> [l \in NodeSet(n) |-> l]]

Maps ==
    UNION {UNION {{MakeMap(n, pr.lt, pr.len, ts) : ts \in TurnSets(n, pr.lt)} :
                   pr \in LaneProfiles(n)} : n \in 1 .. NumLanes}

\* No pathfinder is built, no call was made, no handler runs.
Unbuilt ==
    /\ state = "Uninitialized"
    /\ graph = NoGraph
    /\ nodes = <<>>
    /\ constraints = "Car"
    /\ path_calc = [t \in Threads |-> NoCalc]
    /\ last = NoLast
    /\ pc = [t \in Threads |-> "idle"]
    /\ req = [t \in Threads |-> NoReq]
    /\ scratch = [t \in Threads |-> NoScratch]
    /\ created = [t \in Threads |-> 0]
    /\ ui = "idle"
    /\ previous_version = <<>>

Init == map \in Maps /\ Unbuilt

\* "If we're not the first being built, seed from the node ordering": the Car
\* pathfinder of a map is built first, without a seed, and is the seed of the
\* Bike and Bus pathfinders.
Seeded(c) == c # "Car"

\* The node ordering VehiclePathfinder::new prepares the graph with: the seed's,
\* or the one prepare() picks for the input graph, here any.
NewOrderings(m, ns, c) ==
    NodeOrders(MakeInputGraph(m, ns, IF Seeded(c) THEN "Car" ELSE c).num_nodes)

\* VehiclePathfinder::new(map, constraints, seed)
New(c) ==
    /\ state = "Uninitialized"
    /\ LET ns == NodeMapNew(map)
           input_graph == MakeInputGraph(map, ns, c)
       IN \E node_ordering \in NewOrderings(map, ns, c) :
            /\ nodes' = ns
            /\ constraints' = c
            /\ LET res == Unwrap(IF OrderFits(input_graph, node_ordering)
                                 THEN Ok(PrepareWithOrder(input_graph,
                                                          node_ordering))
                                 ELSE Err, NoGraph)
               IN IF res.ok
                  THEN /\ graph' = res.graph
                       /\ state' = "Built"
                  ELSE /\ graph' = NoGraph
                       /\ state' = "Aborted"
            /\ last' = [NoLast EXCEPT !.op = "new"]
    /\ UNCHANGED <<map, path_calc>>
    /\ UNCHANGED tvars

\* The steps pathfind assembles from the raw path.
RECURSIVE PairSteps(_, _)
PairSteps(lanes, i) ==
    IF i >= Len(lanes) THEN <<>>
    ELSE <<[kind |-> "Lane", lane |-> lanes[i]],
           [kind |-> "Turn", src |-> lanes[i], dst |-> lanes[i + 1]]>>
         \o PairSteps(lanes, i + 1)

\* The steps without the push of the final lane.
MakeStepsNoFinalLane(ns, raw_nodes, end_lane) ==
    PairSteps(Translate(ns, raw_nodes), 1)

MakeSteps(ns, raw_nodes, end_lane) ==
    PairSteps(Translate(ns, raw_nodes), 1)
        \o <<[kind |-> "Lane", lane |-> end_lane]>>

\* check_bike_route: map.get_t on a step that is no turn of the map.
CheckBikeRouteAborts(steps, m) ==
    \E i \in 1 .. Len(steps) :
        /\ steps[i].kind = "Turn"
        /\ <<steps[i].src, steps[i].dst>> \notin m.turns

\* Map::find_closest_lane(from, types): of the other lanes of from's road that
\* have one of the types, the one next to from; Err when there is none.
FindClosestLane(m, from, types) ==
    LET C == {l \in LanesOf(m) \ {from} :
                m.parent[l] = m.parent[from] /\ m.lt[l] \in types}
        dist(l) == IF l > from THEN l - from ELSE from - l
    IN IF C = {} THEN [ok |-> FALSE, lane |-> from]
       ELSE [ok |-> TRUE,
             lane |-> CHOOSE l \in C : \A k \in C :
                         dist(l) < dist(k) \/ (dist(l) = dist(k) /\ l <= k)]

NoAudit == [panic |-> "-", reports |-> {}]

\* check_bike_route prints its line for every parallel bike lane it finds.
Reports(cost1, cost2) == TRUE

\* check_bike_route from the pair steps[i], steps[i + 1] on: for a Turn and
\* the Lane after it, unless that is a bike lane, the Bike costs of the lane
\* and of the bike lane closest to it, each with the turn; a report is
\* [lane, cost1, pbl, cost2].
RECURSIVE CheckBikeRoute(_, _, _, _)
CheckBikeRoute(steps, i, m, out) ==
    IF i >= Len(steps) THEN out
    ELSE IF ~(steps[i].kind = "Turn" /\ steps[i + 1].kind = "Lane")
    THEN CheckBikeRoute(steps, i + 1, m, out)
    ELSE IF CheckBikeRouteAborts(<<steps[i]>>, m)
    THEN [out EXCEPT !.panic = "get_t"]
    ELSE LET lane == steps[i + 1].lane
             pbl == FindClosestLane(m, lane, {"Biking"})
         IN IF m.lt[lane] = "Biking" \/ ~pbl.ok
            THEN CheckBikeRoute(steps, i + 1, m, out)
            ELSE IF CostAborts(lane, "Bike", m) \/ CostAborts(pbl.lane, "Bike", m)
            THEN [out EXCEPT !.panic = "cost"]
            ELSE LET cost1 == Cost(lane, steps[i].dst, "Bike", m)
                     cost2 == Cost(pbl.lane, steps[i].dst, "Bike", m)
                 IN CheckBikeRoute(steps, i + 1, m,
                       IF Reports(cost1, cost2)
                       THEN [out EXCEPT !.reports = @ \cup
                               {[lane |-> lane, cost1 |-> cost1,
                                 pbl |-> pbl.lane, cost2 |-> cost2]}]
                       ELSE out)

\* No assertion on the start lane.
NoStartAssert(m, start) == FALSE

\* assert!(!map.get_l(req.start.lane()).is_sidewalk())
StartAssertFails(m, start) == m.lt[start] = "Sidewalk"

\* pathfind from calc_path on: the search between two nodes with the thread's
\* calculator, the steps, the Path and, for Bike, the audit (audited: the call
\* ran check_bike_route; panic: where the audit panicked; reports: the lines
\* it printed).
CalcAndAssemble(h, ns, c, calc, m, start_node, end_node, end_lane) ==
    IF CalcPathAborts(h, calc, start_node, end_node)
    THEN [NoResult EXCEPT !.kind = "Abort"]
    ELSE LET raw_path == CalcPath(h, start_node, end_node)
         IN IF ~raw_path.found THEN [NoResult EXCEPT !.kind = "None"]
            ELSE LET steps == MakeSteps(ns, raw_path.nodes, end_lane)
                     audit == c = "Bike"
                     out == IF audit THEN CheckBikeRoute(steps, 1, m, NoAudit)
                            ELSE NoAudit
                 IN IF out.panic # "-"
                    THEN [NoResult EXCEPT !.kind = "Abort", !.audited = TRUE,
                                          !.panic = out.panic]
                    ELSE [kind |-> "Path", raw |-> raw_path.nodes,
                          weight |-> raw_path.weight, steps |-> steps,
                          cost_cm |-> raw_path.weight, audited |-> audit,
                          panic |-> "-", reports |-> out.reports]

\* VehiclePathfinder::pathfind(req, map) on a thread, as a function of the
\* pathfinder's fields and the thread's calculator.
PathfindResult(h, ns, c, calc, m, start, end) ==
    IF StartAssertFails(m, start) THEN [NoResult EXCEPT !.kind = "Abort"]
    ELSE CalcAndAssemble(h, ns, c, calc, m,
                         NodeGet(ns, start), NodeGet(ns, end), end)

\* path_calc.get_or(|| create_calculator(&self.graph))
GetOrCreate(calc, h) ==
    IF calc.made THEN calc ELSE [made |-> TRUE, num_nodes |-> h.num_nodes]

Pathfind(t, start, end) ==
    /\ state = "Built"
    /\ LET calc == IF StartAssertFails(map, start) THEN path_calc[t]
                   ELSE GetOrCreate(path_calc[t], graph)
           r == PathfindResult(graph, nodes, constraints, calc, map, start, end)
       IN /\ path_calc' = [path_calc EXCEPT ![t] = calc]
          /\ last' = [NoLast EXCEPT !.op = "pathfind", !.thread = t,
                         !.start = start, !.end = end, !.result = r]
          /\ state' = IF r.kind = "Abort" THEN "Aborted" ELSE "Built"
    /\ UNCHANGED <<map, graph, nodes, constraints>>
    /\ UNCHANGED tvars

\* The edits of a network: a filter closes one turn, or one is opened again.
Edited(m) ==
    {[m EXCEPT !.turns = m.turns \ {t}] : t \in m.turns} \cup
    {[m EXCEPT !.turns = m.turns \cup {t}] :
        t \in TurnUniverse(m.n, m.lt) \ m.turns}

\* A rebuild that takes the Car constraints instead of the pathfinder's own.
ApplyEditsGraphAsCar(h, ns, c, m) ==
    LET ig == MakeInputGraph(m, ns, "Car")
    IN IF OrderFits(ig, GetNodeOrdering(h))
       THEN PrepareWithOrder(ig, GetNodeOrdering(h)) ELSE h

\* The graph apply_edits assigns: the input graph of the given map, prepared
\* with the node ordering of the graph it replaces.
ApplyEditsGraph(h, ns, c, m) ==
    PrepareWithOrder(MakeInputGraph(m, ns, c), GetNodeOrdering(h))

\* A rebuild that throws the threads' calculators away.
ApplyEditsDropsScratch(m) ==
    /\ state = "Built"
    /\ map' = m
    /\ LET res == Unwrap(IF OrderFits(MakeInputGraph(m, nodes, constraints),
                                      GetNodeOrdering(graph))
                         THEN Ok(ApplyEditsGraph(graph, nodes, constraints, m))
                         ELSE Err, graph)
       IN IF res.ok
          THEN /\ graph' = res.graph
               /\ state' = "Built"
          ELSE /\ graph' = graph
               /\ state' = "Aborted"
    /\ last' = [NoLast EXCEPT !.op = "apply_edits", !.changed = (m # map)]
    /\ path_calc' = [t \in Threads |-> NoCalc]
    /\ UNCHANGED <<nodes, constraints>>
    /\ UNCHANGED tvars

\* VehiclePathfinder::apply_edits(map), with the network the caller passes: the
\* one the graph was built from, or an edited one.  The unwrap comes before the
\* assignment: a panic leaves self.graph as it was.
ApplyEdits(m) ==
    /\ state = "Built"
    /\ map' = m
    /\ LET res == Unwrap(IF OrderFits(MakeInputGraph(m, nodes, constraints),
                                      GetNodeOrdering(graph))
                         THEN Ok(ApplyEditsGraph(graph, nodes, constraints, m))
                         ELSE Err, graph)
       IN IF res.ok
          THEN /\ graph' = res.graph
               /\ state' = "Built"
          ELSE /\ graph' = graph
               /\ state' = "Aborted"
    /\ last' = [NoLast EXCEPT !.op = "apply_edits", !.changed = (m # map)]
    /\ UNCHANGED <<nodes, constraints, path_calc>>
    /\ UNCHANGED tvars

Next ==
    \/ \E c \in Modes : New(c)
    \/ \E t \in Callers, s, e \in LanesOf(map) : Pathfind(t, s, e)
    \/ ApplyEdits(map)
    \/ \E m \in Edited(map) : ApplyEdits(m)

Spec == Init /\ [][Next]_vars

\* ------------------------------------------- calls on several threads
\* pathfind, step by step on the threads of Threads, and the edits of the
\* neighbourhood editor (apps/ltn), whose handlers run one at a time on the
\* thread that holds &mut App.
ThreadLanes == 2
MaxUndo == 2
MaxCreated == 2

ThreadInit == Init /\ map.n = ThreadLanes

\* A &mut borrow that is granted whatever the threads are doing.
BorrowMutUnchecked(pcs) == TRUE

\* &mut self of apply_edits, &mut App of the handlers: granted only while no
\* pathfind (&self) is in flight.
BorrowMut(pcs) == \A t \in Threads : pcs[t] = "idle"

\* One slot for all threads.
ThreadLocalShared(t) == "t1"

\* ThreadLocal: the slot of the calling thread.
ThreadLocalSlot(t) == t

\* A get_or that runs its closure on every call.
CreatesAlways(calc) == TRUE

\* ThreadLocal::get_or runs the closure when the thread's slot is empty.
Creates(calc) == ~calc.made

LastPathfind(t, start, end, r) ==
    [NoLast EXCEPT !.op = "pathfind", !.thread = t, !.start = start,
                   !.end = end, !.result = r]

\* pathfind up to the start of calc_path: the assertion, get_or, borrow_mut
\* (which panics on a calculator that is already borrowed), and the request
\* written to the calculator.
PathfindBegin(t, start, end) ==
    /\ state = "Built"
    /\ ui = "idle"
    /\ pc[t] = "idle"
    /\ LET slot == ThreadLocalSlot(t)
       IN IF StartAssertFails(map, start) \/ scratch[slot].busy
          THEN /\ state' = "Aborted"
               /\ last' = LastPathfind(t, start, end,
                                       [NoResult EXCEPT !.kind = "Abort"])
               /\ path_calc' = IF StartAssertFails(map, start) THEN path_calc
                               ELSE [path_calc EXCEPT
                                        ![slot] = GetOrCreate(@, graph)]
               /\ UNCHANGED <<pc, req, scratch, created>>
          ELSE /\ path_calc' = [path_calc EXCEPT ![slot] = GetOrCreate(@, graph)]
               /\ created' = [created EXCEPT ![slot] =
                                IF Creates(path_calc[slot])
                                THEN Min({@ + 1, MaxCreated}) ELSE @]
               /\ scratch' = [scratch EXCEPT ![slot] =
                                [busy |-> TRUE, start |-> NodeGet(nodes, start),
                                 end |-> NodeGet(nodes, end)]]
               /\ req' = [req EXCEPT ![t] = [start |-> start, end |-> end,
                                             calc |-> slot, seen |-> graph]]
               /\ pc' = [pc EXCEPT ![t] = "calc"]
               /\ UNCHANGED <<state, last>>
    /\ UNCHANGED <<map, graph, nodes, constraints, ui, previous_version>>

\* pathfind from calc_path to its return; the borrow ends with the call.
PathfindEnd(t) ==
    /\ state = "Built"
    /\ pc[t] = "calc"
    /\ LET slot == req[t].calc
           r == CalcAndAssemble(graph, nodes, constraints, path_calc[slot], map,
                                scratch[slot].start, scratch[slot].end,
                                req[t].end)
       IN /\ last' = LastPathfind(t, req[t].start, req[t].end, r)
          /\ scratch' = [scratch EXCEPT ![slot] = NoScratch]
          /\ state' = IF r.kind = "Abort" THEN "Aborted" ELSE "Built"
    /\ pc' = [pc EXCEPT ![t] = "idle"]
    /\ req' = [req EXCEPT ![t] = NoReq]
    /\ UNCHANGED <<map, graph, nodes, constraints, path_calc, created, ui,
                   previous_version>>

\* The handler without its call of after_edit.
HandleWorldOutcomeNoAfterEdit(m) ==
    /\ state = "Built"
    /\ ui = "idle"
    /\ BorrowMut(pc)
    /\ Len(previous_version) < MaxUndo
    /\ previous_version' = <<map>> \o previous_version
    /\ map' = m
    /\ ui' = "idle"
    /\ UNCHANGED <<state, graph, nodes, constraints, path_calc, last,
                   pc, req, scratch, created>>

\* handle_world_outcome, a click on a road or an intersection: before_edit
\* keeps the version to return to, the filter is placed or removed, and
\* after_edit is called.
HandleWorldOutcome(m) ==
    /\ state = "Built"
    /\ ui = "idle"
    /\ BorrowMut(pc)
    /\ Len(previous_version) < MaxUndo
    /\ previous_version' = <<map>> \o previous_version
    /\ map' = m
    /\ ui' = "after_edit"
    /\ UNCHANGED <<state, graph, nodes, constraints, path_calc, last,
                   pc, req, scratch, created>>

\* Tab::handle_action, "undo": the previous version is taken back, and
\* after_edit is called.
HandleActionUndo ==
    /\ state = "Built"
    /\ ui = "idle"
    /\ BorrowMut(pc)
    /\ previous_version # <<>>
    /\ map' = Head(previous_version)
    /\ previous_version' = Tail(previous_version)
    /\ ui' = "after_edit"
    /\ UNCHANGED <<state, graph, nodes, constraints, path_calc, last,
                   pc, req, scratch, created>>

\* after_edit: the rebuild of the pathfinder is entered (apply_edits takes
\* &mut self).
AfterEdit ==
    /\ state = "Built"
    /\ ui = "after_edit"
    /\ BorrowMut(pc)
    /\ state' = "Rebuilding"
    /\ ui' = "apply_edits"
    /\ UNCHANGED <<map, graph, nodes, constraints, path_calc, last,
                   pc, req, scratch, created, previous_version>>

\* apply_edits: input graph, node ordering, prepare_with_order(..).unwrap() and
\* the assignment of self.graph; the handler returns.
ApplyEditsAssign ==
    /\ state = "Rebuilding"
    /\ LET res == Unwrap(IF OrderFits(MakeInputGraph(map, nodes, constraints),
                                      GetNodeOrdering(graph))
                         THEN Ok(ApplyEditsGraph(graph, nodes, constraints, map))
                         ELSE Err, graph)
       IN IF res.ok
          THEN /\ graph' = res.graph
               /\ state' = "Built"
          ELSE /\ graph' = graph
               /\ state' = "Aborted"
    /\ ui' = "idle"
    /\ last' = [NoLast EXCEPT !.op = "apply_edits", !.changed = TRUE]
    /\ UNCHANGED <<map, nodes, constraints, path_calc,
                   pc, req, scratch, created, previous_version>>

ThreadNext ==
    \/ \E c \in Modes : New(c)
    \/ \E t \in Threads, s, e \in LanesOf(map) : PathfindBegin(t, s, e)
    \/ \E t \in Threads : PathfindEnd(t)
    \/ \E m \in Edited(map) : HandleWorldOutcome(m)
    \/ HandleActionUndo
    \/ AfterEdit
    \/ ApplyEditsAssign

ThreadSpec == ThreadInit /\ [][ThreadNext]_vars

\* ------------------------------------------------------ cost() by itself
\* The lanes and turns cost() is applied to: a lane of each type and length,
\* a turn of each length, roads of either speed limit; and the networks of the
\* Car and Bike scenarios.
Lengths == {1, 7, 50, 60, 100}
TurnLengths == {0, 5, 7}
SpeedLimits == {10, 13}

\* Lane 0 leads by one turn to the driving lane 1.
OneTurnMaps ==
    {[n |-> 2, lt |-> <<t, "Driving">>, len |-> <<l, 100>>,
      speed |-> <<s1, s2>>, tlen |-> tl, turns |-> {<<0, 1>>},
      parent |-> <<0, 1>>] :
        t \in LaneTypes, l \in Lengths, tl \in TurnLengths,
        s1 \in SpeedLimits, s2 \in SpeedLimits}

\* Sequences written <<..>> count from 1, lanes from 0.
FromZero(q) == [l \in 0 .. (Len(q) - 1) |-> q[l + 1]]

ZeroBased(m) ==
    [m EXCEPT !.lt = FromZero(m.lt), !.len = FromZero(m.len),
              !.speed = FromZero(m.speed), !.parent = FromZero(m.parent)]

\* Scenario A: three 100 m lanes A -> B -> C, 5 m turns, 13 m/s.
ScenarioA ==
    [n |-> 3,
     lt |-> FromZero(<<"Driving", "Driving", "Driving">>),
     len |-> FromZero(<<100, 100, 100>>),
     speed |-> FromZero(<<13, 13, 13>>),
     tlen |-> 5,
     turns |-> {<<0, 1>>, <<1, 2>>},
     parent |-> FromZero(<<0, 1, 2>>)]

\* Scenario B: from lane 0 to lane 3 by the driving lane 1 (dl metres) or by the
\* parallel bike lane 2 (bl metres) of the same road, with turns of tl metres.
ScenarioB(dl, bl, tl) ==
    [n |-> 4,
     lt |-> FromZero(<<"Driving", "Driving", "Biking", "Driving">>),
     len |-> FromZero(<<100, dl, bl, 100>>),
     speed |-> FromZero(<<13, 13, 13, 13>>),
     tlen |-> tl,
     turns |-> {<<0, 1>>, <<0, 2>>, <<1, 3>>, <<2, 3>>},
     parent |-> FromZero(<<0, 1, 1, 2>>)]

\* From lane 1 to lane 0 over lane 2, with a turn from lane 1 to the last
\* lane, which has no turn of its own.
DeadEndDetour ==
    [n |-> 4,
     lt |-> FromZero(<<"Driving", "Driving", "Driving", "Driving">>),
     len |-> FromZero(<<100, 100, 100, 100>>),
     speed |-> FromZero(<<13, 13, 13, 13>>),
     tlen |-> 5,
     turns |-> {<<1, 2>>, <<2, 0>>, <<1, 3>>},
     parent |-> FromZero(<<0, 1, 2, 3>>)]

ScenarioMaps ==
    {ScenarioA, DeadEndDetour}
        \cup {ScenarioB(50, bl, tl) : bl \in {60, 80}, tl \in {0, 5}}

CostMaps == {ZeroBased(m) : m \in OneTurnMaps} \cup ScenarioMaps

CostInit == map \in CostMaps /\ Unbuilt

\* cost(lane, turn, constraints, map) as make_input_graph calls it: for a lane
\* the mode can use and one of its turns.
EvalCost(lane, dst) ==
    /\ state = "Built"
    /\ CanUse(constraints, lane, map)
    /\ <<lane, dst>> \in GetTurnsFor(map, lane, constraints)
    /\ IF CostAborts(lane, constraints, map)
       THEN /\ state' = "Aborted"
            /\ last' = [NoLast EXCEPT !.op = "cost", !.start = lane,
                          !.end = dst, !.result.kind = "Abort"]
       ELSE /\ state' = state
            /\ last' = [NoLast EXCEPT !.op = "cost", !.start = lane,
                          !.end = dst, !.result.kind = "Cost",
                          !.result.weight = Cost(lane, dst, constraints, map)]
    /\ UNCHANGED <<map, graph, nodes, constraints, path_calc>>
    /\ UNCHANGED tvars

CostNext ==
    \/ \E c \in Modes : New(c)
    \/ \E l, d \in LanesOf(map) : EvalCost(l, d)
    \/ \E t \in Callers, s, e \in LanesOf(map) : Pathfind(t, s, e)

CostSpec == CostInit /\ [][CostNext]_vars

\* ------------------------------------------------------------ persistence
\* A derive without the skip attributes.
SkippedNone(name) == FALSE

\* #[serde(skip_serializing, skip_deserializing)]
Skipped(name) == name = "path_calc"

\* #[derive(Serialize)]: the fields written to the blob, by name, but for the
\* skipped ones; of the node map the list id_to_node is written.
Serialize(h, ns, c, calcs) ==
    {f \in {<<"graph", h>>, <<"nodes", [id_to_node |-> ns]>>,
            <<"constraints", c>>, <<"path_calc", calcs>>} : ~Skipped(f[1])}

Field(blob, name) == (CHOOSE f \in blob : f[1] = name)[2]

\* deserialize_nodemap: the lanes of id_to_node, each mapped back to its index.
RECURSIVE DeserializeNodemap(_, _, _)
DeserializeNodemap(inner, i, ns) ==
    IF i > Len(inner.id_to_node) THEN ns
    ELSE DeserializeNodemap(inner, i + 1, Append(ns, inner.id_to_node[i]))

\* A field as read back: Default::default() when it is skipped.
ReadField(blob, name, default) ==
    IF Skipped(name) THEN default ELSE Field(blob, name)

\* #[derive(Deserialize)]: graph and constraints as written, nodes through
\* deserialize_nodemap, path_calc an empty ThreadLocal.
Deserialize(blob) ==
    [graph |-> ReadField(blob, "graph", NoGraph),
     nodes |-> DeserializeNodemap(ReadField(blob, "nodes", <<>>), 1, <<>>),
     constraints |-> ReadField(blob, "constraints", "Car"),
     path_calc |-> ReadField(blob, "path_calc", [t \in Threads |-> NoCalc])]

\* The pathfinder is written out and the instance that is read back takes its
\* place (changed: the original had scratch state).
SaveLoad ==
    /\ state = "Built"
    /\ LET loaded == Deserialize(Serialize(graph, nodes, constraints, path_calc))
       IN /\ graph' = loaded.graph
          /\ nodes' = loaded.nodes
          /\ constraints' = loaded.constraints
          /\ path_calc' = loaded.path_calc
    /\ last' = [NoLast EXCEPT !.op = "load",
                   !.changed = (\E t \in Threads : path_calc[t].made)]
    /\ UNCHANGED <<map, state>>
    /\ UNCHANGED tvars

PersistNext ==
    \/ \E c \in Modes : New(c)
    \/ \E t \in Callers, s, e \in LanesOf(map) : Pathfind(t, s, e)
    \/ ApplyEdits(map)
    \/ \E m \in Edited(map) : ApplyEdits(m)
    \/ SaveLoad

PersistSpec == Init /\ [][PersistNext]_vars

\* ------------------------------------------------------------ properties
\* The input graph the pathfinder's hierarchy is prepared from.
InputGraphNow == MakeInputGraph(map, nodes, constraints)

Answered == last.op = "pathfind" /\ last.result.kind \in {"Path", "None"}
Returned == last.op = "pathfind" /\ last.result.kind = "Path"

\* Reference distances by relaxation: after k rounds D[v] is the weight of the
\* lightest path from s to v of at most k edges.
RECURSIVE Relax(_, _, _)
Relax(E, D, k) ==
    IF k = 0 THEN D
    ELSE Relax(E,
               [v \in DOMAIN D |->
                  Min({D[v]} \cup {D[e[1]] + e[3] :
                        e \in {f \in E : f[2] = v /\ D[f[1]] < Infinity}})],
               k - 1)

ShortestDist(ig, s, t) ==
    Relax(ig.edges,
          [v \in NodeSet(ig.num_nodes) |-> IF v = s THEN 0 ELSE Infinity],
          ig.num_nodes)[t]

RECURSIVE SumWeights(_, _, _)
SumWeights(ig, raw, i) ==
    IF i >= Len(raw) THEN 0
    ELSE EdgeWeight(ig, raw[i], raw[i + 1]) + SumWeights(ig, raw, i + 1)

IsGraphPath(ig, raw, s, t) ==
    /\ Len(raw) >= 1
    /\ raw[1] = s
    /\ raw[Len(raw)] = t
    /\ \A i \in 1 .. (Len(raw) - 1) : EdgeWeight(ig, raw[i], raw[i + 1]) > 0

C2_PathValidity ==
    Returned =>
        LET st == last.result.steps
        IN /\ Len(st) % 2 = 1
           /\ \A i \in 1 .. Len(st) :
                 IF i % 2 = 1 THEN st[i].kind = "Lane"
                 ELSE /\ st[i].kind = "Turn"
                      /\ st[i - 1].kind = "Lane" /\ st[i].src = st[i - 1].lane
                      /\ st[i + 1].kind = "Lane" /\ st[i].dst = st[i + 1].lane
           /\ st[1].kind = "Lane" /\ st[1].lane = last.start
           /\ st[Len(st)].kind = "Lane" /\ st[Len(st)].lane = last.end

\* A returned Path with two turns.
C2_Witness == Returned /\ Len(last.result.steps) >= 5

\* The turns a mode may use: both lanes usable by the mode.
FeasibleTurns(m, c) ==
    {t \in m.turns : CanUse(c, t[1], m) /\ CanUse(c, t[2], m)}

RECURSIVE ReachFrom(_, _)
ReachFrom(T, S) ==
    LET S2 == S \cup {t[2] : t \in {u \in T : u[1] \in S}}
    IN IF S2 = S THEN S ELSE ReachFrom(T, S2)

\* A sequence of mode-feasible turns leads from lane s to lane e.
FeasibleRoute(m, c, s, e) == e \in ReachFrom(FeasibleTurns(m, c), {s})

\* C3 (as claimed): for a request that passes the start-lane assertion,
\* pathfind returns None, without aborting, when no sequence of mode-feasible
\* turns leads from the start lane to the end lane, and returns a Path only
\* when such a sequence exists.
C3_NoRouteIsNone ==
    (last.op = "pathfind" /\ ~StartAssertFails(map, last.start)) =>
        /\ ~FeasibleRoute(map, constraints, last.start, last.end)
              => last.result.kind = "None"
        /\ last.result.kind = "Path"
              => FeasibleRoute(map, constraints, last.start, last.end)

C5_NodeCount == state = "Built" => graph.num_nodes = map.n

\* The placeholder edge of make_input_graph, when the last lane got no edge.
IsPlaceholder(m, ns, c, e) ==
    /\ e[1] = NodeGet(ns, m.n - 1)
    /\ e[2] = NodeGet(ns, 0)
    /\ e[3] = 1
    /\ ~CanUse(c, m.n - 1, m) \/ GetTurnsFor(m, m.n - 1, c) = {}

IsTurnEdge(m, ns, c, e) ==
    \E t \in FeasibleTurns(m, c) :
        /\ e[1] = NodeGet(ns, t[1])
        /\ e[2] = NodeGet(ns, t[2])
        /\ e[3] = Cost(t[1], t[2], c, m)

\* C6 (as claimed): every edge of the graph is a turn the mode may use, between
\* two lanes the mode may use.
C6_EveryEdgeIsTurn ==
    state = "Built" =>
        \A e \in InputGraphNow.edges : IsTurnEdge(map, nodes, constraints, e)

\* C6 (amended): every edge of the graph other than the placeholder edge (last
\* lane to LaneID(0), weight 1, present only when the last lane has no edge of
\* its own) is a turn the mode may use, between two lanes the mode may use.
C6_EdgesAreTurnsOrPlaceholder ==
    state = "Built" =>
        \A e \in InputGraphNow.edges :
            \/ IsTurnEdge(map, nodes, constraints, e)
            \/ IsPlaceholder(map, nodes, constraints, e)

\* A graph with a turn edge and a placeholder edge that is no turn.
C6_Witness ==
    /\ state = "Built"
    /\ \E e \in InputGraphNow.edges : IsTurnEdge(map, nodes, constraints, e)
    /\ \E e \in InputGraphNow.edges :
          /\ IsPlaceholder(map, nodes, constraints, e)
          /\ ~IsTurnEdge(map, nodes, constraints, e)

\* C7 (as claimed): no returned Path contains the step from the last lane to
\* LaneID(0) unless that step is a turn the mode may use.
C7_PlaceholderNeverUsed ==
    Returned =>
        \A i \in 1 .. Len(last.result.steps) :
            LET st == last.result.steps[i]
            IN (st.kind = "Turn" /\ st.src = map.n - 1 /\ st.dst = 0)
                  => <<st.src, st.dst>> \in FeasibleTurns(map, constraints)

\* What a hierarchy prepared with node ordering o answers to the last request.
AnswerWithOrder(o) ==
    CalcPath(PrepareWithOrder(InputGraphNow, o),
             NodeGet(nodes, last.start), NodeGet(nodes, last.end))

SameAnswer(r) ==
    /\ r.found <=> last.result.kind = "Path"
    /\ r.found => r.weight = last.result.cost_cm

C9_SeedEquivalence ==
    (Answered /\ Seeded(constraints)) =>
        \A o \in NodeOrders(InputGraphNow.num_nodes) :
            SameAnswer(AnswerWithOrder(o))

\* A seeded pathfinder returned a path over two edges.
C9_Witness == Returned /\ Seeded(constraints) /\ Len(last.result.raw) >= 3

\* What pathfind answers to every request and thread, given the fields.
AllAnswers(h, ns, c, calcs, m) ==
    [r \in LanesOf(m) \X LanesOf(m) \X Threads |->
        PathfindResult(h, ns, c, GetOrCreate(calcs[r[3]], h), m, r[1], r[2])]

InFlight(t) == pc[t] = "calc" /\ state # "Aborted"

\* C11: the hierarchy does not change under a query: what a query in flight
\* saw when it began is the graph installed now, its result is computed against
\* that graph alone, and apply_edits changes nothing of the pathfinder but the
\* graph.
C11_NoMixedHierarchy ==
    [][/\ \A t \in Threads : pc'[t] = "calc" => req'[t].seen = graph'
       /\ \A t \in Threads :
            (pc[t] = "calc" /\ pc'[t] = "idle") =>
               last'.result =
                  CalcAndAssemble(req[t].seen, nodes, constraints,
                                  path_calc[req[t].calc], map,
                                  NodeGet(nodes, req[t].start),
                                  NodeGet(nodes, req[t].end), req[t].end)
       /\ state = "Rebuilding" =>
            UNCHANGED <<nodes, constraints, path_calc, scratch, created, req>>
      ]_vars

\* A query is in flight on one thread after a rebuild that changed the graph's
\* edges, and another thread had queried before the rebuild.
C11_Witness ==
    /\ last.op = "apply_edits"
    /\ state = "Built"
    /\ InFlight("t1")
    /\ path_calc["t2"].made
    /\ previous_version # <<>>
    /\ MakeInputGraph(Head(previous_version), nodes, constraints).edges
          # InputGraphNow.edges

\* The hierarchy is the one prepared from the network as it is now.
Fresh(h, ns, c, m) ==
    /\ OrderFits(MakeInputGraph(m, ns, c), GetNodeOrdering(h))
    /\ h = PrepareWithOrder(MakeInputGraph(m, ns, c), GetNodeOrdering(h))

C13_Lifecycle ==
    [][/\ (\E t \in Threads : pc'[t] # pc[t]) => state = "Built"
       /\ state = "Rebuilding" => state' = "Built"
       /\ state' = "Rebuilding" => \A t \in Threads : pc'[t] = "idle"
      ]_vars

\* C14: a thread's calculator does not exist before the thread's first
\* pathfind (none after new); it is created in a pathfind of that thread that
\* finds none, hence at most once; a query in flight holds the calculator of
\* its own thread, and no two queries in flight hold the same one.
C14_ScratchPerThread ==
    [][/\ state = "Uninitialized" => \A t \in Threads : ~path_calc'[t].made
       /\ \A t \in Threads : created'[t] <= 1
       /\ \A t \in Threads :
            created'[t] # created[t] =>
               (pc[t] = "idle" /\ pc'[t] = "calc" /\ ~path_calc[t].made)
       /\ \A t \in Threads : path_calc'[t].made <=> created'[t] = 1
       /\ \A t \in Threads :
            pc'[t] = "calc" =>
               (req'[t].calc = t /\ path_calc'[t].made /\ scratch'[t].busy)
       /\ \A t, u \in Threads :
            (t # u /\ pc'[t] = "calc" /\ pc'[u] = "calc") =>
               req'[t].calc # req'[u].calc
      ]_vars

\* Both threads are in a query at once, the first of them in its second.
C14_Witness ==
    /\ InFlight("t1")
    /\ InFlight("t2")
    /\ last.op = "pathfind"
    /\ last.thread = "t1"
    /\ created = [t \in Threads |-> 1]

\* The result of a request run alone: one call of pathfind on a thread that
\* has made no call before.
Alone(start, end) ==
    PathfindResult(graph, nodes, constraints, GetOrCreate(NoCalc, graph), map,
                   start, end)

\* C15: the steps of pathfind leave graph, nodes and constraints as they are,
\* and a query that returns among the queries of other threads returns what
\* its request returns when run alone.
C15_ReadOnlyQueries ==
    [][/\ (\E t \in Threads : pc'[t] # pc[t]) =>
            UNCHANGED <<graph, nodes, constraints>>
       /\ \A t \in Threads :
            (pc[t] = "calc" /\ pc'[t] = "idle") =>
               last'.result = Alone(req[t].start, req[t].end)
       /\ (last' # last /\ last'.op = "pathfind") =>
            /\ UNCHANGED <<graph, nodes, constraints>>
            /\ last'.result = Alone(last'.start, last'.end)
      ]_vars

\* A query of one thread returned a Path while the other thread was in a query
\* for another request.
C15_Witness ==
    /\ last.op = "pathfind"
    /\ last.thread = "t2"
    /\ last.result.kind = "Path"
    /\ InFlight("t1")
    /\ <<req["t1"].start, req["t1"].end>> # <<last.start, last.end>>

\* A physical quantity: a time in seconds or a length in centimetres.
Seconds(n) == [dim |-> "time", base |-> n]
Meters(n) == [dim |-> "length", base |-> 100 * n]

\* Distance::centimeters, the cost that pathfind hands to Path::new.
DistanceCentimeters(n) == [dim |-> "length", base |-> n]

\* C16 (as claimed): the cost of a returned Path is the path weight taken in
\* the unit of the mode's edge weights: seconds for Car and Bus, metres for
\* Bike (a weight of 0 is the same in every unit).
C16_CostInModeUnit ==
    (Returned /\ last.result.weight > 0) =>
        DistanceCentimeters(last.result.cost_cm) =
            IF constraints = "Bike" THEN Meters(last.result.weight)
            ELSE Seconds(last.result.weight)

\* w is x / y rounded to the nearest whole number: x / y - 1/2 < w <= x / y + 1/2
\* (a half goes up).
IsRounded(w, x, y) == 2 * y * w <= 2 * x + y /\ 2 * x + y < 2 * y * (w + 1)

CostCall == last.op = "cost" /\ last.result.kind = "Cost"

\* C17: in Car mode the weight of a turn's edge is the lane's length over its
\* road's speed limit plus the turn's length over the speed limit of the road
\* the turn leads to, in seconds, rounded once; the weight of a returned path
\* is the sum of the weights of its edges; in scenario A each hop costs 8 and
\* the path from A to C is A, B, C with weight 16.
C17_CarCost ==
    constraints = "Car" =>
        /\ last.op = "cost" =>
              /\ last.result.kind = "Cost"
              /\ IsRounded(last.result.weight,
                           map.len[last.start] * map.speed[last.end]
                              + map.tlen * map.speed[last.start],
                           map.speed[last.start] * map.speed[last.end])
        /\ Returned =>
              last.result.weight = SumWeights(InputGraphNow, last.result.raw, 1)
        /\ (map = ScenarioA /\ last.op = "cost") => last.result.weight = 8
        /\ (map = ScenarioA /\ last.op = "pathfind"
              /\ last.start = 0 /\ last.end = 2) =>
              /\ last.result.kind = "Path"
              /\ last.result.raw = <<0, 1, 2>>
              /\ last.result.weight = 16

\* Scenario A: the Car path from A to C was returned.
C17_Witness ==
    /\ map = ScenarioA
    /\ constraints = "Car"
    /\ Returned
    /\ last.start = 0
    /\ last.end = 2

\* C18: in Bike mode the weight of a turn's edge is the length of lane and
\* turn times 1.0 on a bike lane, 1.1 on a bus lane and 1.5 on a driving lane,
\* rounded, whatever the speed limits; in scenario B the 50 m driving lane
\* weighs 75 and the 60 m bike lane 60, and the returned path takes the bike
\* lane; it takes the driving lane when the bike lane is 80 m long.
C18_BikeCost ==
    constraints = "Bike" =>
        /\ last.op = "cost" =>
              /\ last.result.kind = "Cost"
              /\ IsRounded(last.result.weight,
                           (CASE map.lt[last.start] = "Biking" -> 10
                              [] map.lt[last.start] = "Bus" -> 11
                              [] map.lt[last.start] = "Driving" -> 15)
                              * (map.len[last.start] + map.tlen),
                           10)
        /\ (map = ScenarioB(50, 60, 0) /\ last.op = "cost") =>
              /\ last.start = 1 => last.result.weight = 75
              /\ last.start = 2 => last.result.weight = 60
        /\ (last.op = "pathfind" /\ last.start = 0 /\ last.end = 3) =>
              /\ map \in {ScenarioB(50, 60, 0), ScenarioB(50, 60, 5)} =>
                    (last.result.kind = "Path" /\ last.result.raw = <<0, 2, 3>>)
              /\ map \in {ScenarioB(50, 80, 0), ScenarioB(50, 80, 5)} =>
                    (last.result.kind = "Path" /\ last.result.raw = <<0, 1, 3>>)

\* Scenario B: the Bike path over the bike lane was returned.
C18_Witness ==
    /\ map = ScenarioB(50, 60, 0)
    /\ constraints = "Bike"
    /\ Returned
    /\ last.start = 0
    /\ last.end = 3

\* C19: in Bus mode the weight of a turn's edge is the Car time sum (the
\* lane's time plus the turn's time) times 1.0 on a bus lane and 1.1 on any
\* other lane, rounded once; cost() returns a weight, without aborting, for
\* every lane and turn that make_input_graph passes to it for Bus.
C19_BusCost ==
    (constraints = "Bus" /\ last.op = "cost") =>
        /\ last.result.kind = "Cost"
        /\ IsRounded(last.result.weight,
                     (IF map.lt[last.start] = "Bus" THEN 10 ELSE 11)
                        * (map.len[last.start] * map.speed[last.end]
                             + map.tlen * map.speed[last.start]),
                     10 * map.speed[last.start] * map.speed[last.end])

\* The Bus cost of a 100 m driving lane and a 5 m turn at 13 m/s: 9, where the
\* Car cost is 8.
C19_Witness ==
    /\ constraints = "Bus"
    /\ CostCall
    /\ map.lt[last.start] = "Driving"
    /\ map.len[last.start] = 100
    /\ map.tlen = 5
    /\ map.speed[last.start] = 13
    /\ map.speed[last.end] = 13
    /\ last.result.weight = 9

\* C20 (as claimed): a pathfind call does not run check_bike_route, and what it
\* returns is what it returns without the audit: the audit never turns a found
\* path into an abort.
C20_AuditOffHotPath ==
    last.op = "pathfind" =>
        /\ ~last.result.audited
        /\ last.result.audited => last.result.kind = "Path"

C22_FailureFatalAtBuild ==
    [][/\ state # "Aborted"
       /\ state = "Uninitialized" =>
            IF state' = "Built"
            THEN Fresh(graph', nodes', constraints', map')
            ELSE graph' = NoGraph
       /\ (state = "Built" /\ last'.op = "apply_edits") =>
            IF OrderFits(MakeInputGraph(map', nodes, constraints),
                         GetNodeOrdering(graph))
            THEN state' = "Built" /\ Fresh(graph', nodes', constraints', map')
            ELSE state' = "Aborted" /\ graph' = graph
       /\ last'.op = "pathfind" =>
            (state = "Built" /\ Fresh(graph, nodes, constraints, map))
      ]_vars

\* A rebuild failed after the pathfinder had answered a query: the graph is
\* the one before the rebuild, and no pathfinder is left to query.
C22_Witness ==
    /\ last.op = "apply_edits"
    /\ state = "Aborted"
    /\ path_calc["t1"].made
    /\ graph.num_nodes = map.n
    /\ ~Fresh(graph, nodes, constraints, map)

\* C23 (as claimed): a build never reuses an ordering over another node set:
\* when the seed of new, or the graph apply_edits replaces, has not the node
\* set of the input graph, the build takes a fresh ordering, so that every
\* build ends with a hierarchy prepared for the network; and apply_edits keeps
\* the ordering when the node sets are the same.
C23_ReuseOnlyOnSameNodes ==
    [][/\ (state = "Uninitialized" /\ state' # "Uninitialized") =>
            /\ state' = "Built"
            /\ Fresh(graph', nodes', constraints', map')
       /\ (state = "Built" /\ last'.op = "apply_edits") =>
            /\ state' = "Built"
            /\ Fresh(graph', nodes', constraints', map')
            /\ NodeSet(MakeInputGraph(map', nodes, constraints).num_nodes)
                  = NodeSet(graph.num_nodes)
                  => GetNodeOrdering(graph') = GetNodeOrdering(graph)
      ]_vars

\* C24: apply_edits changes no field but graph, and of the graph not the node
\* ordering: the node map, the constraints and the calculators are those from
\* before the call and the new graph has the ordering of the old one; the node
\* map is the one made from the network's lanes at construction, and the
\* ordering fixed there is an ordering of the seed's nodes when there is a
\* seed.
C24_ApplyEditsFrame ==
    [][/\ last'.op = "apply_edits" =>
            /\ nodes' = nodes
            /\ constraints' = constraints
            /\ path_calc' = path_calc
            /\ graph'.order = graph.order
            /\ nodes' = NodeMapNew(map')
       /\ (state = "Uninitialized" /\ state' = "Built") =>
            /\ nodes' = NodeMapNew(map)
            /\ graph'.order \in
                  NodeOrders(MakeInputGraph(map, nodes',
                                 IF Seeded(constraints') THEN "Car"
                                 ELSE constraints').num_nodes)
      ]_vars

\* A rebuild of a seeded pathfinder over three nodes changed the graph's edges.
C24_Witness ==
    /\ last.op = "apply_edits"
    /\ last.changed
    /\ state = "Built"
    /\ Seeded(constraints)
    /\ Len(graph.order) = 3
    /\ InputGraphNow.edges # {}

\* C25 (as claimed): the input graph has an edge that is no turn of the mode
\* exactly when the last lane has no edge of a turn; such an edge leaves the
\* last lane's node and leads to a node of another lane, also when the network
\* has one lane only.
C25_PlaceholderExactly ==
    state = "Built" =>
        LET ig == InputGraphNow
            from == NodeGet(nodes, map.n - 1)
            real == {e \in ig.edges : IsTurnEdge(map, nodes, constraints, e)}
            placeholder == ig.edges \ real
        IN /\ placeholder # {} <=> ~(\E e \in real : e[1] = from)
           /\ \A e \in placeholder :
                 /\ e[1] = from
                 /\ e[2] \in NodeSet(map.n)
                 /\ e[2] # e[1]

\* C26 (as claimed): every line the Bike audit prints for a returned path is
\* about a driving or bus lane of the path and a bike lane of the same road
\* whose Bike cost is strictly lower than the lane's; it prints nothing for a
\* bike lane that costs the same or more.
C26_AuditFlagsOnlyCheaper ==
    Returned =>
        \A r \in last.result.reports :
            /\ map.lt[r.lane] \in {"Driving", "Bus"}
            /\ map.lt[r.pbl] = "Biking"
            /\ map.parent[r.pbl] = map.parent[r.lane]
            /\ r.cost2 < r.cost1

\* C27: apply_edits leaves the threads' calculators as they are; a query of a
\* thread that has a calculator uses it and leaves it as it is; and whatever
\* calls came before, the query returns what pathfind returns for the request
\* with a calculator made anew for the graph at hand.
C27_ScratchSurvivesEdits ==
    [][/\ last'.op = "apply_edits" => path_calc' = path_calc
       /\ (last'.op = "pathfind" /\ path_calc[last'.thread].made) =>
            /\ path_calc'[last'.thread] = path_calc[last'.thread]
            /\ last'.result =
                  PathfindResult(graph, nodes, constraints,
                                 [made |-> TRUE, num_nodes |-> graph.num_nodes],
                                 map, last'.start, last'.end)
      ]_vars

\* A rebuild changed the edges of a Bike graph whose thread had made its
\* calculator before: the thread's next query finds it.
C27_Witness ==
    /\ last.op = "apply_edits"
    /\ last.changed
    /\ state = "Built"
    /\ path_calc["t1"].made
    /\ constraints = "Bike"
    /\ Cardinality(InputGraphNow.edges) >= 2

\* C28 (as claimed): for a Bike request between two lanes that a sequence of
\* feasible turns joins, pathfind does not abort inside check_bike_route, and
\* the lane-type assertion of cost does not fail there.
C28_AuditNeverAborts ==
    (/\ constraints = "Bike"
     /\ last.op = "pathfind"
     /\ FeasibleRoute(map, constraints, last.start, last.end)) =>
        /\ last.result.panic # "cost"
        /\ ~(last.result.kind = "Abort" /\ last.result.audited)

\* C29 (as claimed): a request from a lane to itself, for any lane but a
\* sidewalk, returns the Path of the one step Lane(start), of cost 0.
C29_SameLaneRequest ==
    (/\ last.op = "pathfind"
     /\ last.start = last.end
     /\ map.lt[last.start] # "Sidewalk") =>
        /\ last.result.kind = "Path"
        /\ last.result.steps = <<[kind |-> "Lane", lane |-> last.start]>>
        /\ last.result.cost_cm = 0

====
